---- MODULE Spec2Model ----
(***************************************************************************)
(* Model of the manuclaw gateway: handler / run_pipeline (gateway/index.py) *)
(* driving the plan returned by TaskBreaker.break_task through the three    *)
(* YouTube adapters (ai-loop-orch/index.py) and the audit table             *)
(* (memory/index.py), over one websocket connection.                        *)
(*                                                                          *)
(* Every `await send(...)` of run_pipeline is one action, so the transport  *)
(* can close between any two of them.  Outbound texts are sequences of      *)
(* string tokens in the order the f-string concatenates them; the emoji of  *)
(* the source are written as bracketed ASCII words.                         *)
(***************************************************************************)
EXTENDS Naturals, Sequences, FiniteSets, TLC

\* ------------------------------------------------------------------ bounds
MaxSteps == 3   \* longest execution_plan the Plan Generator returns
MaxMsgs == 2    \* inbound messages the client sends on the connection
MaxAudit == 0   \* a next message is read only while table memory1 has at most this many rows

\* --------------------------------------------------------------- constants
CHAT_ID == 1
USER_ID == 1

LinkTool == "youtube_link_detection_tool"
FetchTool == "youtube_transcript_fetch_tool"
SummTool == "transcript_summarizer_tool"
EmailTool == "send_email"

\* Names in ToolRegistry._tools once tools/__init__.py has been imported:
\* the @registry.register decorator on send_email is the only registration.
RegisteredTools == {EmailTool}

\* Tool identifiers a planned step may carry.
PlanTools == {LinkTool, FetchTool, SummTool, EmailTool}

\* ------------------------------------------------------------------ inputs
UrlMessage == "https://youtu.be/dQw4w9WgXcQ summarize this"
PlainMessage == "summarize the news"
Messages == {UrlMessage, PlainMessage}

NoVideoError == "No valid YouTube video ID found in input."

\* youtube_link_detection_tool: the three regular expressions find an
\* 11-character id in UrlMessage and none in PlainMessage.
youtube_link_detection_tool(raw_input) ==
    IF raw_input = UrlMessage
    THEN [video_id |-> <<"dQw4w9WgXcQ">>, error |-> <<>>]
    ELSE [video_id |-> <<>>, error |-> <<NoVideoError>>]

\* youtube_transcript_fetch_tool: the fetch succeeds with the joined segment
\* texts or the caught exception text comes back as the error.  A text is
\* the sequence of its whitespace-separated words.  Optional values (None)
\* are the empty sequence, a present value v is <<v>>.
TranscriptResults ==
    { [transcript_text |-> <<<<"never", "gonna", "give">>>>, error |-> <<>>],
      [transcript_text |-> <<>>, error |-> <<"Could not retrieve a transcript">>] }

\* transcript_summarizer_tool: returns a summary, returns the missing-key
\* error, or raises from raise_for_status().
SummaryResults ==
    { [summary |-> <<"three bullet points">>, error |-> <<>>, raised |-> <<>>],
      [summary |-> <<>>, error |-> <<"OPENROUTER_KEY not set in environment.">>, raised |-> <<>>],
      [summary |-> <<>>, error |-> <<>>, raised |-> <<"HTTPStatusError 502">>] }

\* ------------------------------------------------------------ plan contents
\* A JSON object is a function from its keys; dict.get is Get.  A JSON value
\* that is no object is a record with the single field "json" (a scalar) or
\* "list" (an array).
Get(d, k, default) == IF k \in DOMAIN d THEN d[k] ELSE default
IsMapping(v) == DOMAIN v \cap {"json", "list"} = {}

NameOf(t) == "do " \o t

\* The step shapes the Plan Generator is taken to return at position n.
StepsAt(n) ==
    { [step |-> n, subtask_name |-> NameOf(t), tool_to_use |-> t] : t \in PlanTools }
    \cup { [step |-> n] }                                          \* no tool: "" by default
    \cup { [subtask_name |-> NameOf(LinkTool), tool_to_use |-> LinkTool] }  \* no sequence index
    \cup { [json |-> "a string"] }                                 \* not a mapping

RECURSIVE PlansOfLen(_)
PlansOfLen(n) ==
    IF n = 0 THEN {<<>>}
    ELSE { Append(p, s) : p \in PlansOfLen(n - 1), s \in StepsAt(n) }

StepLists == UNION { PlansOfLen(n) : n \in 0..MaxSteps }

\* What `plan = await breaker.break_task(message)` can produce: an exception
\* (from TaskBreaker.__init__, the HTTP call or json.loads) or the parsed
\* JSON content, which need not be an object with a step list.
PlanRaises ==
    { [raised |-> "OPENROUTER_KEY not found in environment variables"],
      [raised |-> "LLM did not return valid JSON."] }

\* A JSON array is [list |-> its elements].
PlanContents ==
    { [list |-> <<>>] }                                   \* valid JSON, not an object
    \cup { [other |-> "no plan"] }                        \* object without execution_plan
    \cup { [execution_plan |-> [json |-> "null"]] }       \* execution_plan without len()
    \cup { [execution_plan |-> [list |-> st]] : st \in StepLists }

\* The plans drawn while a second connection is open: a failing call, the
\* three adapters in order, a fetch without a link step before it, an
\* unregistered tool followed by the summarizer, and an error text and a
\* step name and tool that read like the terminal marker.
StepOf(n, t) == [step |-> n, subtask_name |-> NameOf(t), tool_to_use |-> t]
PairPlans ==
    { [raised |-> "LLM did not return valid JSON."],
      [raised |-> "END"],
      [execution_plan |-> [list |-> <<[step |-> 1, subtask_name |-> "END",
                                       tool_to_use |-> "END"]>>]],
      [execution_plan |-> [list |-> <<StepOf(1, LinkTool), StepOf(2, FetchTool),
                                      StepOf(3, SummTool)>>]],
      [execution_plan |-> [list |-> <<StepOf(1, FetchTool)>>]],
      [execution_plan |-> [list |-> <<StepOf(1, EmailTool), StepOf(2, SummTool)>>]] }

\* ---------------------------------------------------------------- encoding
Digit(n) == CASE n = 0 -> "0" [] n = 1 -> "1" [] n = 2 -> "2" [] n = 3 -> "3"
              [] n = 4 -> "4" [] n = 5 -> "5" [] n = 6 -> "6" [] n = 7 -> "7"
              [] n = 8 -> "8" [] n = 9 -> "9"

\* str(n) of a non-negative integer, as its decimal digits joined.
RECURSIVE Str(_)
Str(n) == IF n < 10 THEN Digit(n) ELSE Str(n \div 10) \o Digit(n % 10)

\* The outbound texts of run_pipeline.  Every ':' of a text is a token of its
\* own, so that the client's split at the first ':' can be computed.
END == <<"END">>
MsgBreaking == <<"[clipboard] Breaking task into subtasks...">>
MsgFound(n) == <<"   Found ", Str(n), " step(s) to execute.">>
MsgPlanFailed(e) == <<"[x] Task planning failed", ":", " ", e>>
MsgStep(n, name) == <<"[wrench] Step ", Str(n), ":", " ", name>>
MsgVideoId(v) == <<"   [ok] Video ID", ":", " ", v>>
MsgTranscript(words) == <<"   [ok] Transcript fetched (", Str(words), " words)">>
MsgAsking == <<"   [hourglass] Asking Kimi K2.5 to summarize...">>
MsgSummaryReady == <<"   [ok] Summary ready">>
\* The warning reduced to the name of the tool.
MsgUnknown_Bare(tool) == <<tool>>

MsgUnknown(tool) == <<"   [warn] Unknown tool '", tool, "', skipping.">>
MsgFailed(e) == <<"   [x] Failed", ":", " ", e>>
MsgStopped == <<"[stop] Pipeline stopped due to error.">>
MsgSaved == <<"[disk] Results saved to memory.">>
MsgSummary(summary) == <<"\n[check] Summary", ":", "\n", summary>>

\* ------------------------------------------------------------------ client
\* ManuclawApp.PHASE_MAP
PHASE_MAP == {"GATEWAY", "PLANNER", "EXECUTOR", "MEMORY", "RESULT", "ERROR"}

\* "".join of a token sequence.
RECURSIVE Concat(_)
Concat(toks) == IF toks = <<>> THEN "" ELSE toks[1] \o Concat(Tail(toks))

\* str.rpartition in the place of str.partition: the split at the last ':'.
FirstColon_Last(line) ==
    CHOOSE k \in DOMAIN line :
        line[k] = ":" /\ \A j \in (k + 1)..Len(line) : line[j] # ":"

\* line.partition(":") splits at the first ':'.
FirstColon(line) ==
    CHOOSE k \in DOMAIN line :
        line[k] = ":" /\ \A j \in 1..(k - 1) : line[j] # ":"

\* line.partition(":")[0]: the text before the first ':'.
Prefix(line) == Concat(SubSeq(line, 1, FirstColon(line) - 1))

\* line.partition(":")[2]: the text after the first ':'.
Rest(line) == Concat(SubSeq(line, FirstColon(line) + 1, Len(line)))

\* ManuclawApp.send_message, lines 155-161: the phase a line is shown with.
Phase(line) ==
    IF ":" \in { line[k] : k \in DOMAIN line } /\ Prefix(line) \in PHASE_MAP
    THEN Prefix(line)
    ELSE "GATEWAY"

\* ManuclawApp.PHASE_MAP[prefix]
PhaseClass ==
    [GATEWAY |-> "phase-gateway", PLANNER |-> "phase-planner",
     EXECUTOR |-> "phase-executor", MEMORY |-> "phase-memory",
     RESULT |-> "phase-result", ERROR |-> "phase-error"]

\* prefix.lower()
Lower ==
    [GATEWAY |-> "gateway", PLANNER |-> "planner", EXECUTOR |-> "executor",
     MEMORY |-> "memory", RESULT |-> "result", ERROR |-> "error"]

\* lines 155-157: the line has a ':' and its prefix is a phase name.
Recognized(line) ==
    ":" \in { line[k] : k \in DOMAIN line } /\ Prefix(line) \in PHASE_MAP

\* lines 154-162: the widget a line is shown as.
Widget(line) ==
    IF Recognized(line)
    THEN [text |-> Rest(line), classes |-> PhaseClass[Prefix(line)]]
    ELSE [text |-> Concat(line), classes |-> "phase-gateway"]

\* json.dumps of a step result: keys in insertion order, None as null, a
\* string in quotes (a transcript is its words).
JsonValue(key, opt) ==
    IF opt = <<>> THEN <<"null">>
    ELSE IF key = "transcript_text" THEN <<"\"">> \o opt[1] \o <<"\"">>
    ELSE <<"\"", opt[1], "\"">>

JsonPair(r, key) == <<"\"" \o key \o "\": ">> \o JsonValue(key, r[key])

json_dumps(r) ==
    LET first == CHOOSE k \in DOMAIN r : k # "error"
    IN  IF DOMAIN r = {} THEN <<"{}">>
        ELSE IF DOMAIN r = {"error"} THEN <<"{">> \o JsonPair(r, "error") \o <<"}">>
        ELSE <<"{">> \o JsonPair(r, first) \o <<", ">> \o JsonPair(r, "error") \o <<"}">>

\* ------------------------------------------------------------------- state
VARIABLES
    connected,      \* gateway 44: the websocket is open, websocket.send succeeds
    pending,        \* gateway 132: inbound messages received and not yet read
    hpc,            \* gateway 129-138: handler is at "recv" | "run" | "closed" | "crashed"
    runs,           \* gateway 134: run_pipeline calls started on the connection
    pc,             \* gateway 39-126: the line run_pipeline is about to execute
    message,        \* gateway 39: run_pipeline's message argument
    steps,          \* gateway 52: the plan's step list
    i,              \* gateway 63: position of `step` in steps
    context,        \* gateway 61: the context dict
    result,         \* gateway 68: the step's result dict
    response_code,  \* gateway 69: the step's response_code
    exc,            \* gateway 54, 99: text of the exception bound to `e`
    conn,           \* memory 27, 73: memory.conn is "none" | "open" | "closed"
    audit,          \* memory 34-61: rows of table memory1, in id order
    emitted,        \* gateway 44: texts the current run has sent on the websocket
    invoked,        \* gateway 73, 80, 89: plan positions whose adapter the run called
    auditStart,     \* gateway 41: number of rows when the current run began
    plan,           \* gateway 50-51: what break_task returned or raised
    outcome,        \* gateway 134-138: how the last run_pipeline call left ("" while running)
    other,          \* gateway 129, 144: the suspended handler of a second connection
    tools,          \* registry 50: ToolRegistry._tools
    called,         \* registry 83-99: the last call of the decorator and how it ended
    tables,         \* memory 33, 57: the tables memory<user_id> of memory.db, rows in id order
    clock,          \* gateway 112: int(time.time())
    fetched,        \* memory 63-70: the last call of get_memories and what it returned
    received,       \* manuclaw 150: the lines the client has read from the websocket
    mounted,        \* manuclaw 163: the Static widgets mounted in the chat log
    status,         \* manuclaw 145-162: the text of the status bar
    listening       \* manuclaw 150-153: the client is in its `async for line in ws`

\* The state of one connection's handler, the registry, the database file.
gatewayVars == <<connected, pending, hpc, runs, pc, message, steps, i, context,
                 result, response_code, exc, conn, audit, emitted, invoked,
                 auditStart, plan, outcome>>
registryVars == <<tools, called>>
memoryVars == <<tables, clock, fetched>>
clientVars == <<received, mounted, status, listening>>

vars == <<gatewayVars, other, registryVars, memoryVars, clientVars>>

EmptyDict == <<>>

Init ==
    /\ connected = TRUE
    /\ pending = 0
    /\ hpc = "recv"
    /\ runs = 0
    /\ pc = "-"
    /\ message = ""
    /\ steps = <<>>
    /\ i = 0
    /\ context = EmptyDict
    /\ result = EmptyDict
    /\ response_code = 200
    /\ exc = ""
    /\ conn = "none"
    /\ audit = <<>>
    /\ emitted = <<>>
    /\ invoked = <<>>
    /\ auditStart = 0
    /\ plan = EmptyDict
    /\ outcome = ""
    /\ other = EmptyDict
    /\ tools = EmptyDict
    /\ called = EmptyDict
    /\ tables = EmptyDict
    /\ clock = 0
    /\ fetched = EmptyDict
    /\ received = <<>>
    /\ mounted = <<>>
    /\ status = "Connecting..."
    /\ listening = TRUE

\* ----------------------------------------------------------------- helpers
Returned == {"plan_failed", "step_failed", "done"}

\* run_pipeline is left: by a return (handler goes on to the next message),
\* by ConnectionClosed (handler's except clauses, lines 135-138) or by any
\* other exception (nothing in handler catches it).
Leave(how) ==
    /\ outcome' = how
    /\ pc' = "-"
    /\ hpc' = IF how \in Returned THEN "recv"
              ELSE IF how = "ConnectionClosed" THEN "closed" ELSE "crashed"

Sent(text) == emitted' = Append(emitted, text)

At(label) == hpc = "run" /\ pc = label

\* The context rebound to a new dict that holds the written field only.
Put_Rebound(key, value) == (key :> value)

\* context[key] = value
Put(key, value) == (key :> value) @@ context

\* ------------------------------------------------------------- environment
\* The client sends another message on the connection.
ClientSend ==
    /\ connected /\ hpc \in {"recv", "run"}
    /\ runs + pending < MaxMsgs
    /\ pending' = pending + 1
    /\ UNCHANGED <<connected, hpc, runs, pc, message, steps, i, context, result,
                   response_code, exc, conn, audit, emitted, invoked, auditStart,
                   plan, outcome>>
    /\ UNCHANGED <<other, registryVars, memoryVars, clientVars>>

\* The transport closes; it never reopens.
Disconnect ==
    /\ connected /\ hpc \in {"recv", "run"}
    /\ connected' = FALSE
    /\ UNCHANGED <<pending, hpc, runs, pc, message, steps, i, context, result,
                   response_code, exc, conn, audit, emitted, invoked, auditStart,
                   plan, outcome>>
    /\ UNCHANGED <<other, registryVars, memoryVars, clientVars>>

\* ----------------------------------------------------------------- handler
\* A run that is spawned instead of awaited leaves the loop free to read on.
HandlerAwaitsMessage_Spawned == hpc \in {"recv", "run"}

\* The loop is back at `async for` only after `await run_pipeline` returned.
HandlerAwaitsMessage == hpc = "recv"

\* `async for message in websocket: await run_pipeline(websocket, message)`
Recv ==
    /\ HandlerAwaitsMessage /\ pending > 0
    /\ Len(audit) <= MaxAudit
    /\ \E m \in Messages : message' = m
    /\ pending' = pending - 1
    /\ runs' = runs + 1
    /\ hpc' = "run" /\ pc' = "L41"
    /\ steps' = <<>> /\ i' = 0 /\ context' = EmptyDict /\ result' = EmptyDict
    /\ response_code' = 200 /\ exc' = "" /\ conn' = "none" /\ plan' = EmptyDict
    /\ emitted' = <<>> /\ invoked' = <<>> /\ auditStart' = Len(audit)
    /\ outcome' = ""
    /\ UNCHANGED <<connected, audit>>
    /\ UNCHANGED <<other, registryVars, memoryVars, clientVars>>

\* The iteration ends on a closed connection with nothing left to read.
HandlerClosed ==
    /\ hpc = "recv" /\ ~connected /\ pending = 0
    /\ hpc' = "closed"
    /\ UNCHANGED <<connected, pending, runs, pc, message, steps, i, context,
                   result, response_code, exc, conn, audit, emitted, invoked,
                   auditStart, plan, outcome>>
    /\ UNCHANGED <<other, registryVars, memoryVars, clientVars>>

\* ------------------------------------------------------------ run_pipeline
\* line 41: memory = MemoryModule(user_id=USER_ID); sqlite3.connect or the
\* CREATE TABLE may raise.
OpenMemory ==
    /\ At("L41")
    /\ \E ok \in BOOLEAN :
         IF ok THEN conn' = "open" /\ pc' = "L48" /\ UNCHANGED <<hpc, outcome>>
         ELSE conn' = conn /\ Leave("sqlite3.Error")
    /\ UNCHANGED <<connected, pending, runs, message, steps, i, context, result,
                   response_code, exc, audit, emitted, invoked, auditStart, plan>>
    /\ UNCHANGED <<other, registryVars, memoryVars, clientVars>>

\* line 48
SendBreaking ==
    /\ At("L48")
    /\ IF connected
       THEN Sent(MsgBreaking) /\ pc' = "L50" /\ UNCHANGED <<hpc, outcome>>
       ELSE UNCHANGED emitted /\ Leave("ConnectionClosed")
    /\ UNCHANGED <<connected, pending, runs, message, steps, i, context, result,
                   response_code, exc, conn, audit, invoked, auditStart, plan>>
    /\ UNCHANGED <<other, registryVars, memoryVars, clientVars>>

\* The planner's exception swallowed into an empty plan.
PlanSteps_Swallowed(p) ==
    IF "raised" \in DOMAIN p \/ ~IsMapping(p) \/ "execution_plan" \notin DOMAIN p
       \/ "list" \notin DOMAIN p.execution_plan
    THEN [steps |-> <<>>]
    ELSE [steps |-> p.execution_plan.list]

\* lines 50-52: TaskBreaker(...), break_task, plan.get("execution_plan", []).
\* plan.get on a non-object and len() of a non-list raise inside the try.
PlanSteps(p) ==
    IF "raised" \in DOMAIN p THEN [error |-> p.raised]
    ELSE IF ~IsMapping(p) THEN [error |-> "'list' object has no attribute 'get'"]
    ELSE IF "execution_plan" \notin DOMAIN p THEN [steps |-> <<>>]
    ELSE IF "list" \notin DOMAIN p.execution_plan
         THEN [error |-> "object of type 'NoneType' has no len()"]
    ELSE [steps |-> p.execution_plan.list]

BreakTask ==
    /\ At("L50")
    /\ \E p \in IF other = EmptyDict THEN PlanRaises \cup PlanContents ELSE PairPlans :
         /\ plan' = p
         /\ IF "error" \in DOMAIN PlanSteps(p)
            THEN exc' = PlanSteps(p).error /\ pc' = "L55" /\ steps' = steps
            ELSE steps' = PlanSteps(p).steps /\ pc' = "L53" /\ exc' = exc
    /\ UNCHANGED <<connected, pending, hpc, runs, message, i, context, result,
                   response_code, conn, audit, emitted, invoked, auditStart,
                   outcome>>
    /\ UNCHANGED <<other, registryVars, memoryVars, clientVars>>

\* line 53, inside the try: a failed send lands in the except of line 54.
\* Otherwise line 61 seeds the context and the loop starts.
SendFound ==
    /\ At("L53")
    /\ IF connected
       THEN /\ Sent(MsgFound(Len(steps)))
            /\ context' = [raw_input |-> message]
            /\ i' = 1
            /\ pc' = "L63"
            /\ exc' = exc
       ELSE /\ exc' = "ConnectionClosed"
            /\ pc' = "L55"
            /\ UNCHANGED <<emitted, context, i>>
    /\ UNCHANGED <<connected, pending, hpc, runs, message, steps, result,
                   response_code, conn, audit, invoked, auditStart, plan,
                   outcome>>
    /\ UNCHANGED <<other, registryVars, memoryVars, clientVars>>

\* line 55
SendPlanFailed ==
    /\ At("L55")
    /\ IF connected
       THEN Sent(MsgPlanFailed(exc)) /\ pc' = "L56" /\ UNCHANGED <<hpc, outcome>>
       ELSE UNCHANGED emitted /\ Leave("ConnectionClosed")
    /\ UNCHANGED <<connected, pending, runs, message, steps, i, context, result,
                   response_code, exc, conn, audit, invoked, auditStart, plan>>
    /\ UNCHANGED <<other, registryVars, memoryVars, clientVars>>

\* line 56
SendEndPlanFailed ==
    /\ At("L56")
    /\ IF connected
       THEN Sent(END) /\ pc' = "L57" /\ UNCHANGED <<hpc, outcome>>
       ELSE UNCHANGED emitted /\ Leave("ConnectionClosed")
    /\ UNCHANGED <<connected, pending, runs, message, steps, i, context, result,
                   response_code, exc, conn, audit, invoked, auditStart, plan>>
    /\ UNCHANGED <<other, registryVars, memoryVars, clientVars>>

\* lines 57-58
ClosePlanFailed ==
    /\ At("L57")
    /\ conn' = "closed"
    /\ Leave("plan_failed")
    /\ UNCHANGED <<connected, pending, runs, message, steps, i, context, result,
                   response_code, exc, audit, emitted, invoked, auditStart, plan>>
    /\ UNCHANGED <<other, registryVars, memoryVars, clientVars>>

\* lines 64-65
Tool(step) == Get(step, "tool_to_use", "")
Name(step) == Get(step, "subtask_name", Tool(step))

\* lines 63-69: next step, or the loop is over.  step.get needs a mapping
\* and step['step'] the key, both before anything is sent.
BeginStep ==
    /\ At("L63")
    /\ IF i > Len(steps)
       THEN pc' = "L122" /\ UNCHANGED <<emitted, result, response_code, hpc, outcome>>
       ELSE IF ~IsMapping(steps[i])
       THEN Leave("AttributeError") /\ UNCHANGED <<emitted, result, response_code>>
       ELSE IF "step" \notin DOMAIN steps[i]
       THEN Leave("KeyError") /\ UNCHANGED <<emitted, result, response_code>>
       ELSE IF connected
       THEN /\ Sent(MsgStep(steps[i].step, Name(steps[i])))
            /\ result' = EmptyDict
            /\ response_code' = 200
            /\ pc' = "L72"
            /\ UNCHANGED <<hpc, outcome>>
       ELSE Leave("ConnectionClosed") /\ UNCHANGED <<emitted, result, response_code>>
    /\ UNCHANGED <<connected, pending, runs, message, steps, i, context, exc,
                   conn, audit, invoked, auditStart, plan>>
    /\ UNCHANGED <<other, registryVars, memoryVars, clientVars>>

\* lines 72-77
CallLinkDetection ==
    /\ At("L72") /\ Tool(steps[i]) = LinkTool
    /\ LET r == youtube_link_detection_tool(context.raw_input)
       IN  /\ result' = r
           /\ invoked' = Append(invoked, i)
           /\ IF r.error # <<>>
              THEN exc' = r.error[1] /\ pc' = "L100" /\ context' = context
              ELSE context' = Put("video_id", r.video_id[1]) /\ pc' = "L77" /\ exc' = exc
    /\ UNCHANGED <<connected, pending, hpc, runs, message, steps, i,
                   response_code, conn, audit, emitted, auditStart, plan, outcome>>
    /\ UNCHANGED <<other, registryVars, memoryVars, clientVars>>

\* line 77
SendVideoId ==
    /\ At("L77")
    /\ IF connected
       THEN Sent(MsgVideoId(context.video_id)) /\ pc' = "L105" /\ exc' = exc
       ELSE UNCHANGED emitted /\ exc' = "ConnectionClosed" /\ pc' = "L100"
    /\ UNCHANGED <<connected, pending, hpc, runs, message, steps, i, context,
                   result, response_code, conn, audit, invoked, auditStart, plan,
                   outcome>>
    /\ UNCHANGED <<other, registryVars, memoryVars, clientVars>>

\* The video id read with a default: the adapter is called without one.
CallTranscriptFetch_DefaultNone ==
    /\ At("L72") /\ Tool(steps[i]) = FetchTool
    /\ \E r \in IF "video_id" \in DOMAIN context
                 THEN TranscriptResults
                 ELSE { q \in TranscriptResults : q.error # <<>> } :
         /\ result' = r
         /\ invoked' = Append(invoked, i)
         /\ IF r.error # <<>>
            THEN exc' = r.error[1] /\ pc' = "L100" /\ context' = context
            ELSE /\ context' = Put("transcript_text", r.transcript_text[1])
                 /\ pc' = "L85" /\ exc' = exc
    /\ UNCHANGED <<connected, pending, hpc, runs, message, steps, i,
                   response_code, conn, audit, emitted, auditStart, plan, outcome>>
    /\ UNCHANGED <<other, registryVars, memoryVars, clientVars>>

\* lines 79-84: context["video_id"] is a KeyError when no step wrote it.
CallTranscriptFetch ==
    /\ At("L72") /\ Tool(steps[i]) = FetchTool
    /\ IF "video_id" \notin DOMAIN context
       THEN /\ exc' = "'video_id'" /\ pc' = "L100"
            /\ UNCHANGED <<result, invoked, context>>
       ELSE \E r \in TranscriptResults :
              /\ result' = r
              /\ invoked' = Append(invoked, i)
              /\ IF r.error # <<>>
                 THEN exc' = r.error[1] /\ pc' = "L100" /\ context' = context
                 ELSE /\ context' = Put("transcript_text", r.transcript_text[1])
                      /\ pc' = "L85" /\ exc' = exc
    /\ UNCHANGED <<connected, pending, hpc, runs, message, steps, i,
                   response_code, conn, audit, emitted, auditStart, plan, outcome>>
    /\ UNCHANGED <<other, registryVars, memoryVars, clientVars>>

\* line 85: words = len(result["transcript_text"].split())
SendTranscript ==
    /\ At("L85")
    /\ IF connected
       THEN Sent(MsgTranscript(Len(context.transcript_text))) /\ pc' = "L105" /\ exc' = exc
       ELSE UNCHANGED emitted /\ exc' = "ConnectionClosed" /\ pc' = "L100"
    /\ UNCHANGED <<connected, pending, hpc, runs, message, steps, i, context,
                   result, response_code, conn, audit, invoked, auditStart, plan,
                   outcome>>
    /\ UNCHANGED <<other, registryVars, memoryVars, clientVars>>

\* line 88
SendAsking ==
    /\ At("L72") /\ Tool(steps[i]) = SummTool
    /\ IF connected
       THEN Sent(MsgAsking) /\ pc' = "L89" /\ exc' = exc
       ELSE UNCHANGED emitted /\ exc' = "ConnectionClosed" /\ pc' = "L100"
    /\ UNCHANGED <<connected, pending, hpc, runs, message, steps, i, context,
                   result, response_code, conn, audit, invoked, auditStart, plan,
                   outcome>>
    /\ UNCHANGED <<other, registryVars, memoryVars, clientVars>>

\* lines 89-92
CallSummarizer ==
    /\ At("L89")
    /\ IF "transcript_text" \notin DOMAIN context
       THEN /\ exc' = "'transcript_text'" /\ pc' = "L100"
            /\ UNCHANGED <<result, invoked, context>>
       ELSE \E r \in SummaryResults :
              /\ invoked' = Append(invoked, i)
              /\ IF r.raised # <<>>
                 THEN /\ exc' = r.raised[1] /\ pc' = "L100"
                      /\ UNCHANGED <<result, context>>
                 ELSE /\ result' = [summary |-> r.summary, error |-> r.error]
                      /\ IF r.error # <<>>
                         THEN exc' = r.error[1] /\ pc' = "L100" /\ context' = context
                         ELSE /\ context' = Put("summary", r.summary[1])
                              /\ pc' = "L93" /\ exc' = exc
    /\ UNCHANGED <<connected, pending, hpc, runs, message, steps, i,
                   response_code, conn, audit, emitted, auditStart, plan, outcome>>
    /\ UNCHANGED <<other, registryVars, memoryVars, clientVars>>

\* line 93
SendSummaryReady ==
    /\ At("L93")
    /\ IF connected
       THEN Sent(MsgSummaryReady) /\ pc' = "L105" /\ exc' = exc
       ELSE UNCHANGED emitted /\ exc' = "ConnectionClosed" /\ pc' = "L100"
    /\ UNCHANGED <<connected, pending, hpc, runs, message, steps, i, context,
                   result, response_code, conn, audit, invoked, auditStart, plan,
                   outcome>>
    /\ UNCHANGED <<other, registryVars, memoryVars, clientVars>>

\* lines 72, 79, 87: the tool names the if/elif chain dispatches on.
KnownTools == {LinkTool, FetchTool, SummTool}

\* The `continue` forgotten: the skipped step falls through to add_memory.
SendUnknown_NoContinue ==
    /\ At("L72") /\ Tool(steps[i]) \notin KnownTools
    /\ IF connected
       THEN /\ Sent(MsgUnknown(Tool(steps[i])))
            /\ pc' = "L105" /\ exc' = exc
       ELSE /\ exc' = "ConnectionClosed" /\ pc' = "L100"
            /\ UNCHANGED emitted
    /\ UNCHANGED <<connected, pending, hpc, runs, message, steps, i, context,
                   result, response_code, conn, audit, invoked, auditStart, plan,
                   outcome>>
    /\ UNCHANGED <<other, registryVars, memoryVars, clientVars>>

\* lines 95-97, still inside the try
SendUnknown ==
    /\ At("L72") /\ Tool(steps[i]) \notin KnownTools
    /\ IF connected
       THEN /\ Sent(MsgUnknown(Tool(steps[i])))
            /\ i' = i + 1 /\ pc' = "L63" /\ exc' = exc
       ELSE /\ exc' = "ConnectionClosed" /\ pc' = "L100"
            /\ UNCHANGED <<emitted, i>>
    /\ UNCHANGED <<connected, pending, hpc, runs, message, steps, context,
                   result, response_code, conn, audit, invoked, auditStart, plan,
                   outcome>>
    /\ UNCHANGED <<other, registryVars, memoryVars, clientVars>>

\* lines 99-102: the send of the except clause is outside any try.
FailedCode == 500

\* The except clause that forgets to set the status code.
Except_Keeps200 ==
    /\ At("L100")
    /\ response_code' = response_code
    /\ result' = [error |-> <<exc>>]
    /\ IF connected
       THEN Sent(MsgFailed(exc)) /\ pc' = "L105" /\ UNCHANGED <<hpc, outcome>>
       ELSE UNCHANGED emitted /\ Leave("ConnectionClosed")
    /\ UNCHANGED <<connected, pending, runs, message, steps, i, context, exc,
                   conn, audit, invoked, auditStart, plan>>
    /\ UNCHANGED <<other, registryVars, memoryVars, clientVars>>

\* The send of the except clause guarded: a closed transport is ignored and
\* the failed step goes on to its row.
Except_SendGuarded ==
    /\ At("L100")
    /\ response_code' = FailedCode
    /\ result' = [error |-> <<exc>>]
    /\ pc' = "L105"
    /\ IF connected THEN Sent(MsgFailed(exc)) ELSE UNCHANGED emitted
    /\ UNCHANGED <<hpc, outcome>>
    /\ UNCHANGED <<connected, pending, runs, message, steps, i, context, exc,
                   conn, audit, invoked, auditStart, plan>>
    /\ UNCHANGED <<other, registryVars, memoryVars, clientVars>>

Except ==
    /\ At("L100")
    /\ response_code' = FailedCode
    /\ result' = [error |-> <<exc>>]
    /\ IF connected
       THEN Sent(MsgFailed(exc)) /\ pc' = "L105" /\ UNCHANGED <<hpc, outcome>>
       ELSE UNCHANGED emitted /\ Leave("ConnectionClosed")
    /\ UNCHANGED <<connected, pending, runs, message, steps, i, context, exc,
                   conn, audit, invoked, auditStart, plan>>
    /\ UNCHANGED <<other, registryVars, memoryVars, clientVars>>

\* lines 105-113 and MemoryModule.add_memory: one row of table memory1.
MemoryData(prompt, tool, res, code) ==
    [chat_id |-> CHAT_ID, user_id |-> USER_ID, prompt |-> prompt, tool |-> tool,
     response |-> json_dumps(res), response_code |-> code]

\* The status test inverted: a successful step stops the pipeline.
AfterAudit_Inverted(code) == IF code = 200 THEN "L116" ELSE "L63"

\* The return after a failed step forgotten: the loop goes on.
AfterAudit_NoStop(code) == "L63"

\* A failed step tried again instead of stopping the pipeline.
AfterAudit_Retry(code) == IF code # 200 THEN "L72" ELSE "L63"

\* line 115: where the loop goes after the row is written.
AfterAudit(code) == IF code # 200 THEN "L116" ELSE "L63"

\* lines 105-115: the INSERT may raise; nothing catches it.
AddMemory ==
    /\ At("L105")
    /\ \E ok \in BOOLEAN :
         IF ok
         THEN /\ audit' = Append(audit, MemoryData(message, Tool(steps[i]), result,
                                                   response_code))
              /\ pc' = AfterAudit(response_code)
              /\ i' = IF AfterAudit(response_code) = "L63" THEN i + 1 ELSE i
              /\ UNCHANGED <<hpc, outcome>>
         ELSE Leave("sqlite3.Error") /\ UNCHANGED <<audit, i>>
    /\ UNCHANGED <<connected, pending, runs, message, steps, context, result,
                   response_code, exc, conn, emitted, invoked, auditStart, plan>>
    /\ UNCHANGED <<other, registryVars, memoryVars, clientVars>>

\* A send outside every try block: text sent and on to `next`, or the
\* ConnectionClosed leaves run_pipeline.
PlainSend(label, text, next) ==
    /\ At(label)
    /\ IF connected
       THEN Sent(text) /\ pc' = next /\ UNCHANGED <<hpc, outcome>>
       ELSE UNCHANGED emitted /\ Leave("ConnectionClosed")
    /\ UNCHANGED <<connected, pending, runs, message, steps, i, context, result,
                   response_code, exc, conn, audit, invoked, auditStart, plan>>
    /\ UNCHANGED <<other, registryVars, memoryVars, clientVars>>

\* memory.close() and the return that follows it.
CloseAndReturn(label, how) ==
    /\ At(label)
    /\ conn' = "closed"
    /\ Leave(how)
    /\ UNCHANGED <<connected, pending, runs, message, steps, i, context, result,
                   response_code, exc, audit, emitted, invoked, auditStart, plan>>
    /\ UNCHANGED <<other, registryVars, memoryVars, clientVars>>

\* The failure exit returning without the terminal marker.
SendEndStepFailed_NoMarker == PlainSend("L117", MsgStopped, "L118")

\* lines 116-119
SendStopped == PlainSend("L116", MsgStopped, "L117")
SendEndStepFailed == PlainSend("L117", END, "L118")
CloseStepFailed == CloseAndReturn("L118", "step_failed")

\* lines 122-126

\* The final text that never looks at the context.
FinalSummary_Placeholder == "No summary produced."

FinalSummary == Get(context, "summary", "No summary produced.")

\* The summary text sent in the place of the saved text, and so sent twice.
SendSaved_Misordered == PlainSend("L122", MsgSummary(FinalSummary), "L124")

SendSaved == PlainSend("L122", MsgSaved, "L124")
SendSummary == PlainSend("L124", MsgSummary(FinalSummary), "L125")
SendEndDone == PlainSend("L125", END, "L126")
CloseDone == CloseAndReturn("L126", "done")

Next ==
    \/ ClientSend \/ Disconnect \/ Recv \/ HandlerClosed
    \/ OpenMemory \/ SendBreaking \/ BreakTask \/ SendFound
    \/ SendPlanFailed \/ SendEndPlanFailed \/ ClosePlanFailed
    \/ BeginStep
    \/ CallLinkDetection \/ SendVideoId
    \/ CallTranscriptFetch \/ SendTranscript
    \/ SendAsking \/ CallSummarizer \/ SendSummaryReady
    \/ SendUnknown \/ Except \/ AddMemory
    \/ SendStopped \/ SendEndStepFailed \/ CloseStepFailed
    \/ SendSaved \/ SendSummary \/ SendEndDone \/ CloseDone

Spec == Init /\ [][Next]_vars

\* -------------------------------------------------------- two connections
\* websockets.serve runs one handler coroutine per connection.  The handler
\* that runs has its state in the variables; `other` holds the frame of
\* the handler that is suspended.  Everything of a handler and of its
\* run_pipeline call is in its frame; the table memory1 is shared.
Locals ==
    [connected |-> connected, pending |-> pending, hpc |-> hpc, runs |-> runs,
     pc |-> pc, message |-> message, steps |-> steps, i |-> i,
     context |-> context, result |-> result, response_code |-> response_code,
     exc |-> exc, conn |-> conn, emitted |-> emitted, invoked |-> invoked,
     auditStart |-> auditStart, plan |-> plan, outcome |-> outcome]

\* A connection whose client has sent its message.
FreshFrame ==
    [connected |-> TRUE, pending |-> 1, hpc |-> "recv", runs |-> 0,
     pc |-> "-", message |-> "", steps |-> <<>>, i |-> 0,
     context |-> EmptyDict, result |-> EmptyDict, response_code |-> 200,
     exc |-> "", conn |-> "none", emitted |-> <<>>, invoked |-> <<>>,
     auditStart |-> 0, plan |-> EmptyDict, outcome |-> ""]

\* Two connections are open and each has a message to read.
InitPair ==
    /\ connected = TRUE /\ pending = 1 /\ hpc = "recv" /\ runs = 0
    /\ pc = "-" /\ message = "" /\ steps = <<>> /\ i = 0
    /\ context = EmptyDict /\ result = EmptyDict /\ response_code = 200
    /\ exc = "" /\ conn = "none" /\ audit = <<>> /\ emitted = <<>>
    /\ invoked = <<>> /\ auditStart = 0 /\ plan = EmptyDict /\ outcome = ""
    /\ other = FreshFrame
    /\ tools = EmptyDict /\ called = EmptyDict
    /\ tables = EmptyDict /\ clock = 0 /\ fetched = EmptyDict
    /\ received = <<>> /\ mounted = <<>> /\ status = "Connecting..."
    /\ listening = TRUE

\* The lines a run can be at after an await (a send, break_task, the
\* summarizer): the places where the event loop can run the other handler.
\* Lines 63 and 100 are also reached without an await in between.
AwaitLabels ==
    {"L50", "L53", "L55", "L56", "L57", "L63", "L72", "L89", "L93", "L100",
     "L105", "L117", "L118", "L124", "L125", "L126"}

\* The handler waits for a message, has ended, or its run is at an await.
Suspendable == hpc # "run" \/ pc \in AwaitLabels

\* The context kept in one module-level dict that every run uses.
ContextOf_Global(frame) == context

\* line 61: context is a local of the run_pipeline call.
ContextOf(frame) == frame.context

\* The event loop suspends the running handler and resumes the other one.
Switch ==
    /\ other # EmptyDict /\ Suspendable
    /\ other' = Locals
    /\ connected' = other.connected /\ pending' = other.pending
    /\ hpc' = other.hpc /\ runs' = other.runs /\ pc' = other.pc
    /\ message' = other.message /\ steps' = other.steps /\ i' = other.i
    /\ context' = ContextOf(other)
    /\ result' = other.result /\ response_code' = other.response_code
    /\ exc' = other.exc /\ conn' = other.conn /\ emitted' = other.emitted
    /\ invoked' = other.invoked /\ auditStart' = other.auditStart
    /\ plan' = other.plan /\ outcome' = other.outcome
    /\ UNCHANGED <<audit, registryVars, memoryVars, clientVars>>

NextPair ==
    \/ Switch \/ Disconnect \/ Recv \/ HandlerClosed
    \/ OpenMemory \/ SendBreaking \/ BreakTask \/ SendFound
    \/ SendPlanFailed \/ SendEndPlanFailed \/ ClosePlanFailed
    \/ BeginStep
    \/ CallLinkDetection \/ SendVideoId
    \/ CallTranscriptFetch \/ SendTranscript
    \/ SendAsking \/ CallSummarizer \/ SendSummaryReady
    \/ SendUnknown \/ Except \/ AddMemory
    \/ SendStopped \/ SendEndStepFailed \/ CloseStepFailed
    \/ SendSaved \/ SendSummary \/ SendEndDone \/ CloseDone

SpecPair == InitPair /\ [][NextPair]_vars

\* ------------------------------------------------------------------ client
MaxLineLen == 3
MaxLines == 1

\* The lines a server may send, as sequences of these pieces.
LineTokens == {"ERROR", "GATEWAY", ":", "END"}
Lines == UNION { [1..n -> LineTokens] : n \in 1..MaxLineLen }

\* manuclaw 150-164: one turn of `async for line in ws`.
ReadLine(l) ==
    /\ listening /\ Len(received) < MaxLines
    /\ received' = Append(received, l)
    /\ IF Concat(l) = "END"
       THEN status' = "Done" /\ listening' = FALSE /\ mounted' = mounted
       ELSE /\ mounted' = Append(mounted, Widget(l))
            /\ status' = IF Recognized(l) THEN Lower[Prefix(l)] ELSE status
            /\ listening' = listening
    /\ UNCHANGED <<gatewayVars, other, registryVars, memoryVars>>

\* The server closes the connection: the iteration ends.
StreamEnds ==
    /\ listening
    /\ listening' = FALSE
    /\ UNCHANGED <<received, mounted, status>>
    /\ UNCHANGED <<gatewayVars, other, registryVars, memoryVars>>

NextClient ==
    \/ \E l \in Lines : ReadLine(l)
    \/ StreamEnds

SpecClient == Init /\ [][NextClient]_vars

\* ----------------------------------------------------------- tool registry
\* The functions handed to the decorator: two of them share a __name__.
Functions ==
    { [fname |-> n, body |-> b] : n \in {EmailTool, LinkTool}, b \in {"v1", "v2"} }

\* The name argument of register: None, the empty string, or a name.
NameArgs == { <<>>, <<"">>, <<EmailTool>>, <<FetchTool>> }
Descriptions == {"Send an email to a recipient", "Send a message"}
Parameters == { [type |-> "object"] }

\* line 84: name or func.__name__
tool_name(name, func) ==
    IF name # <<>> /\ name[1] # "" THEN name[1] ELSE func.fname

\* The duplicate test left out: the later registration replaces the first.
decorator_Overwrites(reg, name, description, parameters, func) ==
    [raised |-> FALSE,
     tools |-> (tool_name(name, func) :>
                  [func |-> func,
                   schema |-> [name |-> tool_name(name, func),
                               description |-> description,
                               parameters |-> parameters]]) @@ reg]

\* lines 83-99: the decorator raises ValueError for a name that is present
\* and stores the function and its schema otherwise.
decorator(reg, name, description, parameters, func) ==
    IF tool_name(name, func) \in DOMAIN reg
    THEN [raised |-> TRUE, tools |-> reg]
    ELSE [raised |-> FALSE,
          tools |-> (tool_name(name, func) :>
                       [func |-> func,
                        schema |-> [name |-> tool_name(name, func),
                                    description |-> description,
                                    parameters |-> parameters]]) @@ reg]

\* registry.register(description=..., parameters=..., name=...)(func)
Register ==
    /\ \E name \in NameArgs, description \in Descriptions,
          parameters \in Parameters, func \in Functions :
         LET r == decorator(tools, name, description, parameters, func)
         IN  /\ tools' = r.tools
             /\ called' = [tool_name |-> tool_name(name, func), func |-> func,
                           description |-> description, raised |-> r.raised]
    /\ UNCHANGED <<gatewayVars, other, memoryVars, clientVars>>

NextRegistry == Register

SpecRegistry == Init /\ [][NextRegistry]_vars

\* ---------------------------------------------------------- memory module
MaxRows == 2
MaxClock == 1
MaxLimit == 2

\* The user identities that open a MemoryModule or own a MemoryData.
Users == {USER_ID, USER_ID + 1}

\* gateway 105-113: the MemoryData of a step of user u built at time ts.
DataOf(u, ts) ==
    [timestamp |-> ts]
    @@ [MemoryData(PlainMessage, LinkTool,
                   youtube_link_detection_tool(PlainMessage), FailedCode)
        EXCEPT !.user_id = u]

\* The INSERT run on the table of the module that executes it.
TableOf_Self(self, data) == self

\* memory 49: INSERT INTO memory{data.user_id}
TableOf(self, data) == data.user_id

\* memory 68: ORDER BY timestamp DESC.  SQL leaves the order of rows with
\* equal keys to the engine: every order of the row positions with
\* non-increasing timestamps is a possible one.
Orderings(rows) ==
    { perm \in [DOMAIN rows -> DOMAIN rows] :
        /\ \A a, b \in DOMAIN rows : a # b => perm[a] # perm[b]
        /\ \A a, b \in DOMAIN rows :
             a < b => rows[perm[a]].timestamp >= rows[perm[b]].timestamp }

Min(a, b) == IF a < b THEN a ELSE b

\* memory 64-70: SELECT ... ORDER BY timestamp DESC LIMIT {limit}, fetchall()
Select(rows, limit) ==
    { [k \in 1..Min(limit, Len(rows)) |-> rows[perm[k]]] : perm \in Orderings(rows) }

\* MemoryModule(user_id=u): CREATE TABLE IF NOT EXISTS memory{u}
create_table(u) ==
    /\ tables' = IF u \in DOMAIN tables THEN tables ELSE (u :> <<>>) @@ tables
    /\ UNCHANGED <<clock, fetched, gatewayVars, other, registryVars, clientVars>>

\* add_memory of the module opened for `self`: the row gets the next id;
\* the INSERT into a table that does not exist raises and changes nothing.
add_memory(self, data) ==
    /\ self \in DOMAIN tables
    /\ LET t == TableOf(self, data)
       IN  IF t \in DOMAIN tables
           THEN /\ Len(tables[t]) < MaxRows
                /\ tables' = [tables EXCEPT
                                ![t] = Append(@, [id |-> Len(@) + 1] @@ data)]
           ELSE tables' = tables
    /\ UNCHANGED <<clock, fetched, gatewayVars, other, registryVars, clientVars>>

\* get_memories(user_id, limit) on an existing table.
get_memories(user_id, limit) ==
    /\ user_id \in DOMAIN tables
    /\ \E rows \in Select(tables[user_id], limit) :
         fetched' = [user_id |-> user_id, limit |-> limit, rows |-> rows]
    /\ UNCHANGED <<tables, clock, gatewayVars, other, registryVars, clientVars>>

\* A second passes.
Tick ==
    /\ clock < MaxClock
    /\ clock' = clock + 1
    /\ UNCHANGED <<tables, fetched, gatewayVars, other, registryVars, clientVars>>

NextMemory ==
    \/ \E u \in Users : create_table(u)
    \/ \E self \in Users, u \in Users : add_memory(self, DataOf(u, clock))
    \/ \E u \in Users, limit \in 0..MaxLimit : get_memories(u, limit)
    \/ Tick

SpecMemory == Init /\ [][NextMemory]_vars

\* ===================================================================
\* Properties
\* ===================================================================
Range(f) == { f[k] : k \in DOMAIN f }
RunEnded == outcome # ""
RunAudit == SubSeq(audit, auditStart + 1, Len(audit))
Codes(rows) == [k \in DOMAIN rows |-> rows[k].response_code]
Ends == { k \in DOMAIN emitted : emitted[k] = END }

\* break_task returned an object whose execution_plan is a list (or absent).
PlanIsStepList == plan # EmptyDict /\ "error" \notin DOMAIN PlanSteps(plan)
IsWellFormed(step) == IsMapping(step) /\ "step" \in DOMAIN step
AllWellFormed == \A k \in DOMAIN steps : IsWellFormed(steps[k])
AllKnown == \A k \in DOMAIN steps : IsWellFormed(steps[k]) /\ Tool(steps[k]) \in KnownTools

\* The transport is still open and no sqlite call has raised.
Undisturbed == connected /\ outcome # "sqlite3.Error"

\* C1: a run on a connected transport whose N >= 0 steps all name a known
\* tool and none of which failed ends "done" with exactly N rows appended by
\* it, all with response_code 200, and a single END as its last text, right
\* after the final result text.
C1_AllSucceed ==
    (RunEnded /\ Undisturbed /\ PlanIsStepList /\ AllKnown /\ response_code = 200)
    => /\ outcome = "done"
       /\ Len(RunAudit) = Len(steps)
       /\ \A k \in DOMAIN RunAudit : RunAudit[k].response_code = 200
       /\ Cardinality(Ends) = 1
       /\ Len(emitted) >= 2
       /\ emitted[Len(emitted)] = END
       /\ emitted[Len(emitted) - 1] = MsgSummary(FinalSummary)

C1_Witness ==
    /\ outcome = "done" /\ connected /\ Len(steps) = 3 /\ AllKnown
    /\ Len(RunAudit) = 3 /\ "summary" \in DOMAIN context

\* C2: fail-fast.  In a plan of known tools, a row with response_code 500 is
\* the row of the step being executed, it is the last row of the run, the
\* rows before it all carry 200, and no adapter of a later step has been
\* invoked; a run that ends undisturbed after a failed step k has appended
\* exactly k rows and returned through the step-failed exit.
C2_FailFast ==
    (PlanIsStepList /\ AllKnown)
    => /\ \A p \in DOMAIN RunAudit :
            RunAudit[p].response_code = FailedCode
            => /\ p = Len(RunAudit) /\ p = i
               /\ \A q \in 1..(p - 1) : RunAudit[q].response_code = 200
               /\ \A j \in Range(invoked) : j <= p
       /\ (response_code = FailedCode => \A j \in Range(invoked) : j <= i)
       /\ (RunEnded /\ Undisturbed /\ response_code = FailedCode)
          => /\ outcome = "step_failed"
             /\ Len(RunAudit) = i
             /\ RunAudit[i].response_code = FailedCode

C2_Witness ==
    /\ outcome = "step_failed" /\ connected /\ AllKnown
    /\ Len(steps) = 3 /\ i = 2 /\ Codes(RunAudit) = <<200, 500>>
    /\ invoked = <<1, 2>>

\* C3: while the transport is connected, whatever the plan content, the
\* adapter outcomes and the outcome of the INSERT, run_pipeline (once its
\* MemoryModule is open) returns normally with END as its last text.
C3_NoExceptionEscapes ==
    (RunEnded /\ connected /\ conn # "none")
    => /\ outcome \in Returned
       /\ emitted # <<>> /\ emitted[Len(emitted)] = END

\* C4: END is never followed by another text of the same run, and a run
\* that returned (plan failed, step failed or done) has emitted END, so
\* exactly once.
C4_OneTerminalMarker ==
    /\ \A k \in Ends : k = Len(emitted)
    /\ outcome \in Returned => Cardinality(Ends) = 1

C4_Witness ==
    /\ outcome = "step_failed" /\ Cardinality(Ends) = 1 /\ Len(emitted) > 3

\* C5: when TaskBreaker(...) or break_task raises, no adapter is invoked
\* and no row is appended, and the run, if the transport stays connected,
\* returns having sent the start text, one failure text carrying the
\* error, and END.
C5_PlanCallFails ==
    ("raised" \in DOMAIN plan)
    => /\ invoked = <<>>
       /\ RunAudit = <<>>
       /\ (RunEnded /\ connected)
          => /\ outcome = "plan_failed"
             /\ emitted = <<MsgBreaking, MsgPlanFailed(plan.raised), END>>

C5_Witness ==
    /\ outcome = "plan_failed" /\ "raised" \in DOMAIN plan
    /\ plan.raised = "LLM did not return valid JSON." /\ Len(emitted) = 3

\* C6: a plan whose step list holds a malformed step (no sequence index, or
\* not a mapping), at any position, is handled as a plan-generation failure:
\* no adapter is invoked, no row is appended, and the run returns through
\* the plan-failed exit with END as its last text.
C6_MalformedPlanFailsPlanning ==
    (PlanIsStepList /\ ~AllWellFormed)
    => /\ invoked = <<>>
       /\ RunAudit = <<>>
       /\ (RunEnded /\ Undisturbed)
          => /\ outcome = "plan_failed"
             /\ emitted # <<>> /\ emitted[Len(emitted)] = END

\* C7: a step whose tool is none of the dispatched names (the empty string
\* included) is skipped on a connected transport: the warning is the one
\* text sent, no adapter is invoked, no row is appended, the context is
\* unchanged and the loop moves to the next position; a run with such steps
\* still goes through to "done", with one row per known-tool step only.
SkippedSteps == { k \in DOMAIN steps : Tool(steps[k]) \notin KnownTools }

C7_UnknownToolSkipped ==
    /\ [][ (At("L72") /\ Tool(steps[i]) \notin KnownTools /\ connected /\ pc' # pc)
           => /\ emitted' = Append(emitted, MsgUnknown(Tool(steps[i])))
              /\ invoked' = invoked
              /\ audit' = audit
              /\ context' = context
              /\ i' = i + 1 /\ pc' = "L63"
              /\ hpc' = "run" /\ outcome' = "" ]_vars
    /\ [](  (RunEnded /\ Undisturbed /\ PlanIsStepList /\ AllWellFormed
             /\ response_code = 200)
            => /\ outcome = "done"
               /\ Len(RunAudit) = Len(steps) - Cardinality(SkippedSteps)
               /\ Range(invoked) \cap SkippedSteps = {} )

C7_Witness ==
    /\ outcome = "done" /\ Len(steps) = 3
    /\ Tool(steps[1]) = "" /\ Tool(steps[2]) = LinkTool /\ Tool(steps[3]) = EmailTool
    /\ MsgUnknown("") \in Range(emitted) /\ MsgUnknown(EmailTool) \in Range(emitted)
    /\ Len(RunAudit) = 1 /\ DOMAIN context = {"raw_input", "video_id"}

\* C8: the Tool Registry decides resolution: an adapter is invoked only for
\* a step whose tool is registered, and a step is skipped only if its tool
\* is not registered.
C8_RegistryDecides ==
    /\ \A k \in Range(invoked) : Tool(steps[k]) \in RegisteredTools
    /\ \A k \in DOMAIN steps :
         MsgUnknown(Tool(steps[k])) \in Range(emitted)
         => Tool(steps[k]) \notin RegisteredTools

\* C9: once the transport has closed during a run, the run sends no text,
\* invokes no adapter and appends no row.
C9_SilentAfterDisconnect ==
    [][ (hpc = "run" /\ ~connected)
        => (emitted' = emitted /\ invoked' = invoked /\ audit' = audit) ]_vars

\* C10: on the connection a run starts only when no run was started before
\* or the previous one has returned with END as its last text; after a run
\* that ended otherwise no run starts.
C10_OneRunAtATime ==
    [][ runs' # runs
        => \/ runs = 0
           \/ /\ outcome \in Returned
              /\ emitted # <<>> /\ emitted[Len(emitted)] = END ]_vars

C10_Witness ==
    /\ runs = 2 /\ hpc = "run" /\ pc = "L50"

IsPrefix(a, b) == Len(a) <= Len(b) /\ a = SubSeq(b, 1, Len(a))

\* The text that reports the success of a step of tool t.
IsSuccessText(text, t) ==
    \/ t = LinkTool /\ text = MsgVideoId(text[Len(text)])
    \/ t = FetchTool /\ Len(text) = 3 /\ text[1] = MsgTranscript(0)[1]
                     /\ text[3] = MsgTranscript(0)[3]
    \/ t = SummTool /\ text = MsgSummaryReady

IsFailureText(text) == text = MsgFailed(text[Len(text)])

\* The texts of steps k, k+1, ... of the plan, in the order of the loop of
\* run_pipeline, and then the closing texts: `rest` is a beginning of them.
RECURSIVE StepTexts(_, _)
StepTexts(rest, k) ==
    IF rest = <<>> THEN TRUE
    ELSE IF k > Len(steps)
    THEN IsPrefix(rest, <<MsgSaved, MsgSummary(FinalSummary), END>>)
    ELSE /\ IsWellFormed(steps[k])
         /\ rest[1] = MsgStep(steps[k].step, Name(steps[k]))
         /\ LET t == Tool(steps[k])
                body == Tail(rest)
                asked == t = SummTool /\ body # <<>> /\ body[1] = MsgAsking
                after == IF asked THEN Tail(body) ELSE body
            IN  \/ after = <<>>
                \/ /\ t \notin KnownTools
                   /\ after[1] = MsgUnknown(t)
                   /\ StepTexts(Tail(after), k + 1)
                \/ /\ t \in KnownTools /\ (t = SummTool => asked)
                   /\ IsSuccessText(after[1], t)
                   /\ StepTexts(Tail(after), k + 1)
                \/ /\ t \in KnownTools
                   /\ IsFailureText(after[1])
                   /\ IsPrefix(Tail(after), <<MsgStopped, END>>)

\* C12: the texts of a run come in the order of the algorithm: the start
\* text, then the step count (or the planning failure and END), then for
\* each step in plan order its step text followed by its one outcome text
\* (success, skip warning or failure; the summarizer's progress text comes
\* between the two), then the closing texts; no text of a step comes before
\* a text of an earlier step and no text is sent a second time.
C12_AlgorithmOrder ==
    /\ emitted # <<>> => emitted[1] = MsgBreaking
    /\ Len(emitted) >= 2
       => \/ /\ emitted[2] = MsgFound(Len(steps))
             /\ StepTexts(SubSeq(emitted, 3, Len(emitted)), 1)
          \/ /\ "error" \in DOMAIN PlanSteps(plan)
             /\ IsPrefix(emitted, <<MsgBreaking,
                                    MsgPlanFailed(PlanSteps(plan).error), END>>)

C12_Witness ==
    /\ outcome = "step_failed" /\ connected /\ Len(steps) = 3 /\ i = 3
    /\ SkippedSteps = {1} /\ Tool(steps[3]) = SummTool /\ Len(emitted) = 11

\* C13: a run that returned through a failure exit has sent, before END, a
\* text that the client shows with phase ERROR.
C13_FailureShownAsError ==
    (outcome \in {"plan_failed", "step_failed"})
    => \E k \in DOMAIN emitted :
          /\ Phase(emitted[k]) = "ERROR"
          /\ \A e \in Ends : k < e

\* The texts that tell of the failure of a step.
AboutFailure(text) == IsFailureText(text) \/ text = MsgStopped

\* C17: after an adapter failure the row with response_code 500 is appended
\* first, the error text is sent after it and END right after the error
\* text: whenever a text about the failure has been sent, the 500 row of the
\* failed step is already in the log, and an END that closes a failed run
\* comes right after a text about the failure.
C17_AuditBeforeErrorText ==
    /\ (\E k \in DOMAIN emitted : AboutFailure(emitted[k]))
       => /\ RunAudit # <<>>
          /\ RunAudit[Len(RunAudit)].response_code = FailedCode
          /\ RunAudit[Len(RunAudit)].tool = Tool(steps[i])
    /\ (response_code = FailedCode /\ i >= 1)
       => \A k \in Ends : AboutFailure(emitted[k - 1])

\* lines 80 and 89: the context field the adapter call of a tool reads and
\* that only an earlier step can have written.
Requisite(t) == IF t = FetchTool THEN "video_id" ELSE "transcript_text"

\* The step at which the run stopped is a well-formed step of a tool whose
\* input field is not in the context.
LacksRequisite ==
    /\ i \in DOMAIN steps /\ IsWellFormed(steps[i])
    /\ Tool(steps[i]) \in {FetchTool, SummTool}
    /\ Requisite(Tool(steps[i])) \notin DOMAIN context

\* C18: a run that ends undisturbed at a step whose input field no earlier
\* step wrote has not invoked the adapter of that step, has appended as its
\* last row one row with response_code 500 and the tool of that step, and
\* has returned through the failure exit with the failure text, the stopped
\* text and END as its last texts.
C18_MissingFieldIsFailure ==
    (RunEnded /\ Undisturbed /\ LacksRequisite)
    => /\ i \notin Range(invoked)
       /\ outcome = "step_failed"
       /\ RunAudit # <<>>
       /\ RunAudit[Len(RunAudit)].response_code = FailedCode
       /\ RunAudit[Len(RunAudit)].tool = Tool(steps[i])
       /\ \A p \in 1..(Len(RunAudit) - 1) : RunAudit[p].response_code = 200
       /\ Len(emitted) >= 3
       /\ SubSeq(emitted, Len(emitted) - 2, Len(emitted))
            = <<MsgFailed(exc), MsgStopped, END>>

C18_Witness ==
    /\ outcome = "step_failed" /\ connected /\ LacksRequisite
    /\ Tool(steps[i]) = FetchTool /\ i = 2 /\ SkippedSteps = {1}
    /\ invoked = <<>> /\ Codes(RunAudit) = <<500>>

\* lines 76, 84, 92: the context field a successful step of tool t writes.
OutputField(t) ==
    IF t = LinkTool THEN "video_id"
    ELSE IF t = FetchTool THEN "transcript_text" ELSE "summary"

\* One step of the run wrote its own output field and nothing else: the
\* adapter of step i was invoked and reported no error, the field holds the
\* value of the result, and every other field is as it was.
WroteOwnField ==
    LET f == OutputField(Tool(steps[i]))
    IN  /\ hpc = "run" /\ i \in DOMAIN steps /\ Tool(steps[i]) \in KnownTools
        /\ invoked' = Append(invoked, i)
        /\ result'.error = <<>> /\ pc' # "L100"
        /\ DOMAIN context' = DOMAIN context \cup {f}
        /\ context'[f] = result'[f][1]
        /\ \A g \in DOMAIN context \ {f} : context'[g] = context[g]

\* C19: within a run the context changes only when line 61 creates it with
\* the raw input and when a step succeeds, which then adds exactly its own
\* output field with the value of its result and leaves every other field
\* as later steps read it; a step that fails (the transport being open) or
\* is skipped leaves the context as it was; raw_input is the message of
\* the run throughout.
C19_ContextFrame ==
    /\ [][ (context' # context /\ runs' = runs)
           => \/ context = EmptyDict /\ context' = [raw_input |-> message]
              \/ WroteOwnField ]_vars
    /\ [][ (pc' = "L100" \/ (At("L72") /\ Tool(steps[i]) \notin KnownTools))
           => context' = context ]_vars
    /\ [](context # EmptyDict
          => "raw_input" \in DOMAIN context /\ context.raw_input = message)
    /\ []((hpc = "run" /\ connected /\ response_code = FailedCode
           /\ OutputField(Tool(steps[i])) \in DOMAIN context)
          => \E p \in DOMAIN RunAudit :
                /\ RunAudit[p].tool = Tool(steps[i])
                /\ RunAudit[p].response_code = 200)

C19_Witness ==
    /\ outcome = "step_failed" /\ connected /\ i = 3 /\ Len(steps) = 3
    /\ Tool(steps[3]) = SummTool /\ invoked = <<1, 2, 3>>
    /\ DOMAIN context = {"raw_input", "video_id", "transcript_text"}

\* The steps before step k that the loop does not skip.
ExecutedBefore(k) == { j \in 1..(k - 1) : j \notin SkippedSteps }

\* The step the p-th row of the run belongs to if rows follow plan order.
StepOfRow(p) ==
    CHOOSE k \in DOMAIN steps :
        k \notin SkippedSteps /\ Cardinality(ExecutedBefore(k)) = p - 1

\* C20: steps run one after the other and none is tried again: the adapter
\* invocations of a run are of strictly increasing steps (each step at
\* most once, in plan order); when the adapter of a step has been invoked
\* every earlier step that was not skipped has its row already; and the
\* rows of the run are, in log order, those of the executed steps in plan
\* order.
C20_SequentialNoRetry ==
    /\ \A a, b \in DOMAIN invoked : a < b => invoked[a] < invoked[b]
    /\ \A j \in Range(invoked) :
         /\ j <= i
         /\ Cardinality(ExecutedBefore(j)) <= Len(RunAudit)
    /\ Len(RunAudit) <= Cardinality(ExecutedBefore(i + 1))
    /\ \A p \in DOMAIN RunAudit :
         /\ StepOfRow(p) <= i
         /\ RunAudit[p].tool = Tool(steps[StepOfRow(p)])

C20_Witness ==
    /\ At("L105") /\ i = 3 /\ invoked = <<1, 3>> /\ SkippedSteps = {2}
    /\ Len(RunAudit) = 1 /\ Tool(steps[1]) # Tool(steps[3])

\* C14: a registration under a name that is present raises and changes
\* nothing: whatever the earlier registrations, such a call ends with the
\* ValueError and the same registry, and a name once registered stays
\* mapped to the function and schema first stored under it.
C14_DuplicateRejected ==
    /\ [][ (called' # called /\ called'.tool_name \in DOMAIN tools)
           => (called'.raised /\ tools' = tools) ]_vars
    /\ [][ \A n \in DOMAIN tools :
             n \in DOMAIN tools' /\ tools'[n] = tools[n] ]_vars
    /\ [][ (called' # called /\ called'.tool_name \notin DOMAIN tools)
           => (~called'.raised
               /\ DOMAIN tools' = DOMAIN tools \cup {called'.tool_name}) ]_vars

C14_Witness ==
    /\ called # EmptyDict /\ called.raised
    /\ Cardinality(DOMAIN tools) = 3
    /\ tools[called.tool_name].func # called.func

\* C15: get_memories returns at most `limit` rows, most recent first: of
\* two returned rows the one appended later (the one with the greater id)
\* comes first, also when both carry the same timestamp.
C15_MostRecentFirst ==
    fetched # EmptyDict
    => /\ Len(fetched.rows) <= fetched.limit
       /\ \A a, b \in DOMAIN fetched.rows :
            a < b => fetched.rows[a].id > fetched.rows[b].id

\* C16: the rows get_memories(u) returns are rows of user u, and what
\* get_memories(u, limit) can return changes only when a row of user u is
\* appended to the table of u.
C16_UsersIsolated ==
    /\ [](fetched # EmptyDict
          => \A k \in DOMAIN fetched.rows :
                fetched.rows[k].user_id = fetched.user_id)
    /\ [][ \A u \in DOMAIN tables :
             (\E limit \in 0..MaxLimit :
                 Select(tables'[u], limit) # Select(tables[u], limit))
             => /\ Len(tables'[u]) = Len(tables[u]) + 1
                /\ tables'[u][Len(tables'[u])].user_id = u
                /\ SubSeq(tables'[u], 1, Len(tables[u])) = tables[u] ]_vars

C16_Witness ==
    /\ DOMAIN tables = Users
    /\ \A u \in Users : Len(tables[u]) = 2
    /\ fetched # EmptyDict /\ Len(fetched.rows) = 2

\* The context of a frame holds the raw message of its own run and, of the
\* other fields, only what its own invoked steps can have written.
HoldsOwn(f) ==
    LET wrote(t) == \E j \in Range(f.invoked) : Tool(f.steps[j]) = t
    IN  f.context # EmptyDict
        => /\ "raw_input" \in DOMAIN f.context
           /\ f.context.raw_input = f.message
           /\ "video_id" \in DOMAIN f.context
              => /\ wrote(LinkTool)
                 /\ youtube_link_detection_tool(f.message).video_id
                      = <<f.context.video_id>>
           /\ "transcript_text" \in DOMAIN f.context
              => wrote(FetchTool) /\ "video_id" \in DOMAIN f.context
           /\ "summary" \in DOMAIN f.context
              => wrote(SummTool) /\ "transcript_text" \in DOMAIN f.context

\* C11: with two runs interleaved at their awaits, the context of each run
\* holds only its own raw message and the outputs of its own steps, a step
\* of the running run leaves the context of the suspended run as it was,
\* and a run resumes with the context it was suspended with.
C11_ContextIsolation ==
    /\ [](HoldsOwn(Locals) /\ HoldsOwn(other))
    /\ [][ \/ other'.context = other.context /\ other'.message = other.message
           \/ context' = other.context /\ other'.context = context ]_vars

C11_Witness ==
    /\ hpc = "run" /\ other.hpc = "run" /\ message # other.message
    /\ "video_id" \in DOMAIN context /\ pc = "L105"
    /\ other.pc = "L105" /\ other.steps = <<StepOf(1, FetchTool)>>
    /\ other.response_code = FailedCode /\ other.invoked = <<>>

\* json.dumps of a dict that holds the error text and nothing else.
IsErrorOnly(response) ==
    Len(response) = 6 /\ response = json_dumps([error |-> <<response[4]>>])

\* json.dumps of a result whose "error" is None.
HasNoError(response) ==
    /\ Len(response) >= 3
    /\ SubSeq(response, Len(response) - 2, Len(response))
         = <<"\"error\": ", "null", "}">>

\* C21: when the row of a step is about to be written the status code is
\* 200 exactly if the adapter of the step was invoked and returned a result
\* without error, and 500 exactly if the result is the error text alone;
\* every row of the run has the message of the run as prompt and the tool
\* of its step as tool, a code of 200 or 500, with 200 the serialized
\* result of an invoked adapter that reports no error and with 500 a
\* serialized object that holds only the error text.
C21_RowTellsOutcome ==
    /\ At("L105")
       => /\ response_code \in {200, FailedCode}
          /\ response_code = 200
             <=> (i \in Range(invoked) /\ "error" \in DOMAIN result
                  /\ result.error = <<>>)
          /\ response_code = FailedCode <=> result = [error |-> <<exc>>]
    /\ \A p \in DOMAIN RunAudit :
         LET row == RunAudit[p]
         IN  /\ row.prompt = message
             /\ row.tool = Tool(steps[StepOfRow(p)])
             /\ row.response_code \in {200, FailedCode}
             /\ row.response_code = 200
                => StepOfRow(p) \in Range(invoked) /\ HasNoError(row.response)
             /\ row.response_code = FailedCode
                => IsErrorOnly(row.response) /\ ~HasNoError(row.response)

C21_Witness ==
    /\ outcome = "step_failed" /\ connected /\ Codes(RunAudit) = <<200, 500>>
    /\ invoked = <<1, 2>> /\ IsErrorOnly(RunAudit[2].response)
    /\ RunAudit[2].tool = FetchTool /\ RunAudit[1].tool = LinkTool

\* A summarizer step of the run was invoked and returned its summary.
SummaryProduced ==
    \E p \in DOMAIN RunAudit :
        /\ RunAudit[p].tool = SummTool /\ RunAudit[p].response_code = 200

\* C22: a run that went through all its steps without a failure (no step,
\* skipped steps only, or every executed step with a 200 row) and returned
\* has as its last text before END the result text; it carries the summary
\* of the context if a summarizer step produced one and the words
\* "No summary produced." otherwise.
C22_FinalResult ==
    (outcome = "done")
    => /\ \A p \in DOMAIN RunAudit : RunAudit[p].response_code = 200
       /\ Len(emitted) >= 4
       /\ emitted[Len(emitted)] = END
       /\ SummaryProduced <=> "summary" \in DOMAIN context
       /\ emitted[Len(emitted) - 1]
            = MsgSummary(IF SummaryProduced THEN context.summary
                         ELSE "No summary produced.")

C22_Witness ==
    /\ outcome = "done" /\ Len(steps) = 2 /\ SkippedSteps = {1, 2}
    /\ emitted[Len(emitted) - 1] = MsgSummary("No summary produced.")

\* C23: however a run ends, the sqlite connection that line 41 opened has
\* been closed: by the one memory.close() of the exit taken when the run
\* returns after END, and also when the run is abandoned on a closed
\* transport.
C23_ConnectionReleased ==
    (RunEnded /\ conn # "none") => conn = "closed"

\* C26: a send of step i that failed on the closed transport was caught by
\* the except clause of the step, which set the code to 500; no row is
\* written for that step: the rows of the run are those of the earlier
\* executed steps, all with 200.
C26_TransportFailureNotRecorded ==
    (exc = "ConnectionClosed" /\ i >= 1)
    => /\ \A p \in DOMAIN RunAudit : RunAudit[p].response_code = 200
       /\ Len(RunAudit) = Cardinality(ExecutedBefore(i))

C26_Witness ==
    /\ outcome = "ConnectionClosed" /\ exc = "ConnectionClosed"
    /\ response_code = FailedCode /\ i = 2 /\ invoked = <<1, 2>>
    /\ "transcript_text" \in DOMAIN context /\ Codes(RunAudit) = <<200>>

\* The texts of a handler that read "END" are its last text only, sent by
\* one of the three sends of the terminal marker.
SentinelIsLast(f) ==
    \A k \in DOMAIN f.emitted :
        Concat(f.emitted[k]) = "END"
        => /\ k = Len(f.emitted)
           /\ f.pc \in {"L57", "L118", "L126"} \/ f.outcome \in Returned

\* C25: whatever the plan, the step names, the tool names and the error
\* texts (also when they are "END"), no text of a run other than its
\* terminal marker reads "END": a text that reads "END" is the last text
\* of its run and was sent by a send of the terminal marker, so that a
\* client that stops at the first "END" has read every text of the turn.
C25_SentinelUnambiguous ==
    SentinelIsLast(Locals) /\ SentinelIsLast(other)

C25_Witness ==
    /\ outcome = "done" /\ Len(steps) = 1 /\ Tool(steps[1]) = "END"
    /\ emitted[3] = MsgStep(1, "END") /\ emitted[4] = MsgUnknown("END")
    /\ other.outcome = "plan_failed" /\ other.exc = "END"
    /\ other.emitted[2] = MsgPlanFailed("END")

\* The six phase names of the session protocol and their display classes.
ProtocolPhases ==
    { <<"GATEWAY", "phase-gateway">>, <<"PLANNER", "phase-planner">>,
      <<"EXECUTOR", "phase-executor">>, <<"MEMORY", "phase-memory">>,
      <<"RESULT", "phase-result">>, <<"ERROR", "phase-error">> }

\* C24: every line the client has shown is shown by this rule: if the
\* line has a ':' and the text before its first ':' is one of the six
\* phase names, the widget has the class of that phase and as text what
\* follows the first ':' (later colons included); otherwise, also without
\* any ':', the widget has the whole line as text and the GATEWAY class.
C24_ClientDecoding ==
    /\ Len(mounted) <= Len(received)
    /\ \A k \in DOMAIN mounted :
         LET l == received[k]
             colons == { j \in DOMAIN l : l[j] = ":" }
             first == CHOOSE j \in colons : \A m \in colons : j <= m
             before == Concat(SubSeq(l, 1, first - 1))
         IN  IF colons # {} /\ \E ph \in ProtocolPhases : ph[1] = before
             THEN /\ \E ph \in ProtocolPhases :
                       ph[1] = before /\ mounted[k].classes = ph[2]
                  /\ mounted[k].text = Concat(SubSeq(l, first + 1, Len(l)))
             ELSE /\ mounted[k].classes = "phase-gateway"
                  /\ mounted[k].text = Concat(l)

C24_Witness ==
    /\ Len(mounted) = 1 /\ received[1] = <<"ERROR", ":", ":">>
    /\ mounted[1] = [text |-> ":", classes |-> "phase-error"]

====
